---------------------------- MODULE Spec2Model ----------------------------
(***************************************************************************)
(* A model of async-ssh2-tokio's client (src/src/client.rs).               *)
(*                                                                         *)
(*   Spec      Client::connect_with_config: address resolution, the        *)
(*             candidate loop with ClientHandler::check_server_key run     *)
(*             inside each handshake, and Client::authenticate.            *)
(*   ExecSpec  an authenticated Client: Client::open_channel and the       *)
(*             event loop of ChannelHelper::execute.                       *)
(*                                                                         *)
(* russh and russh_keys are outside the repository.  They are modelled as  *)
(* the environment: every answer they can give at a call site is a         *)
(* nondeterministic input of the action that makes the call.               *)
(***************************************************************************)
EXTENDS Naturals, Sequences, FiniteSets

(***************************************************************************)
(* Bounds of the model.                                                    *)
(***************************************************************************)
MaxAddrs == 2
MaxChannels == 1
MaxText == 2
MaxChunk == 2
MaxTasks == 2
MaxExecs == 2

(***************************************************************************)
(* Input domains.                                                          *)
(***************************************************************************)
\* socket addresses a ToSocketAddrs value can resolve to
Addresses == {"a1", "a2"}

\* host keys a server can present during the handshake
ServerKeys == {"k1", "k2"}

\* ServerCheckMethod values; PublicKey carries its base64 text, "bad64" being
\* a text that parse_public_key_base64 cannot decode
ServerCheckMethods ==
    { [kind |-> "NoCheck", key |-> "none"],
      [kind |-> "PublicKey", key |-> "k1"],
      [kind |-> "PublicKey", key |-> "bad64"],
      [kind |-> "PublicKeyFile", key |-> "none"],
      [kind |-> "KnownHostsFile", key |-> "none"],
      [kind |-> "DefaultKnownHostsFile", key |-> "none"] }

AuthMethods == {"Password", "PrivateKey", "PrivateKeyFile"}

\* candidate lists of at most MaxAddrs socket addresses, in resolution order
RECURSIVE SeqsUpTo(_, _)
SeqsUpTo(S, n) ==
    IF n = 0 THEN { <<>> }
    ELSE LET shorter == SeqsUpTo(S, n - 1)
         IN  shorter \cup { Append(s, x) : s \in { t \in shorter : Len(t) = n - 1 }, x \in S }

VARIABLES
    addr_input,     \* what addr.to_socket_addrs() answers: [ok, addrs]
    server_check,   \* the ServerCheckMethod passed to connect
    auth,           \* the AuthMethod passed to connect
    cpc,            \* position in connect_with_config
    addrs,          \* the iterator of candidates still to try
    connect_res,    \* the local connect_res of connect_with_config
    attemptLog,     \* history: one entry per russh::client::connect call
    authLog,        \* history: one entry per Client::authenticate call
    connResult,     \* what connect_with_config returned
    chans,          \* per channel: the ChannelHelper, its execute and its remote end
    open_res,       \* what the last Client::open_channel returned
    session,        \* the russh session behind connection_handle: "open"/"closed"
    cmds,           \* the callers of execute: "tests" (any command of the
                    \* model) or "tasks" (each task its own command)
    busy,           \* the channel of the Client::execute in progress, 0 if none
    ret             \* what the last execute (when its open_channel failed),
                    \* disconnect or file_transfer of the Client returned

connectVars == <<addr_input, server_check, auth, cpc, addrs, connect_res,
                 attemptLog, authLog, connResult>>

chanVars == <<chans, open_res, session, cmds, busy, ret>>

vars == <<addr_input, server_check, auth, cpc, addrs, connect_res,
          attemptLog, authLog, connResult, chans, open_res, session, cmds,
          busy, ret>>

(***************************************************************************)
(* Values.                                                                 *)
(***************************************************************************)
NoClient == [connection_handle |-> 0, username |-> "", address |-> "none"]

Username == "user"

\* crate::Error values that connect can produce
AddressInvalid == "AddressInvalid"
ServerCheckFailed == "ServerCheckFailed"
PasswordWrong == "PasswordWrong"
KeyInvalid == "KeyInvalid"
KeyAuthFailed == "KeyAuthFailed"
CommandDidntExit == "CommandDidntExit"

\* russh errors, wrapped into crate::Error::SshError
TransportErrors == {"SshError(ConnectionRefused)", "SshError(Timeout)"}
UnknownKey == "SshError(UnknownKey)"
AuthTransportError == "SshError(Disconnect)"

\* Result<(SocketAddr, Handle), crate::Error>; the handle is named by the
\* number of the connect call that produced it
OkConn(a, h) == [ok |-> TRUE, err |-> "none", addr |-> a, h |-> h]
ErrConn(e) == [ok |-> FALSE, err |-> e, addr |-> "none", h |-> 0]

\* Result<Client, crate::Error>
Pending == [state |-> "pending", err |-> "none", client |-> NoClient]
ReturnedOk(c) == [state |-> "ok", err |-> "none", client |-> c]
ReturnedErr(e) == [state |-> "err", err |-> e, client |-> NoClient]

(***************************************************************************)
(* ClientHandler::check_server_key.  env holds what the environment        *)
(* answers during this handshake: the key the server presents, what        *)
(* load_public_key reads, what check_known_hosts(_path) finds.             *)
(* "true"/"false" are Ok((self, b)); "err" is Err(ServerCheckFailed).      *)
(***************************************************************************)
\* russh_keys::parse_public_key_base64: the texts that decode are the keys
ParsePublicKeyBase64(text) == IF text \in ServerKeys THEN text ELSE "err"

BoolStr(b) == IF b THEN "true" ELSE "false"

CheckServerKey_AcceptOnError(method, env) ==
    CASE method.kind = "NoCheck" -> "true"
      [] method.kind = "PublicKey" ->
            IF ParsePublicKeyBase64(method.key) = "err" THEN "true"
            ELSE BoolStr(ParsePublicKeyBase64(method.key) = env.server_key)
      [] method.kind = "PublicKeyFile" ->
            IF env.file_key = "err" THEN "true"
            ELSE BoolStr(env.file_key = env.server_key)
      [] method.kind \in {"KnownHostsFile", "DefaultKnownHostsFile"} ->
            IF env.known = "err" THEN "true" ELSE env.known

CheckServerKey(method, env) ==
    CASE method.kind = "NoCheck" -> "true"
      [] method.kind = "PublicKey" ->
            IF ParsePublicKeyBase64(method.key) = "err" THEN "err"
            ELSE BoolStr(ParsePublicKeyBase64(method.key) = env.server_key)
      [] method.kind = "PublicKeyFile" ->
            IF env.file_key = "err" THEN "err"
            ELSE BoolStr(env.file_key = env.server_key)
      [] method.kind \in {"KnownHostsFile", "DefaultKnownHostsFile"} ->
            env.known

\* what the environment can answer during one connect attempt under a policy
AttemptEnvs(method) ==
    [ transport  : {"up"} \cup TransportErrors,
      server_key : ServerKeys,
      file_key   : IF method.kind = "PublicKeyFile"
                   THEN {"err"} \cup ServerKeys ELSE {"unread"},
      known      : IF method.kind \in {"KnownHostsFile", "DefaultKnownHostsFile"}
                   THEN {"err", "true", "false"} ELSE {"unread"} ]

\* an attempt that never reaches the key exchange learns no server key
NormalEnv(env) ==
    IF env.transport = "up" THEN env
    ELSE [env EXCEPT !.server_key = "none", !.file_key = "unread", !.known = "unread"]

(***************************************************************************)
(* russh::client::connect(config, addr, handler): the transport connect    *)
(* and the handshake, which calls handler.check_server_key once when the   *)
(* transport is up.  A check answering false ends the handshake with       *)
(* russh's UnknownKey, an Err of the check ends it with that error.        *)
(* Returns the check's answer and the Result of the call.                  *)
(***************************************************************************)
RusshConnect(handler, env, h) ==
    IF env.transport # "up"
    THEN [check |-> "notrun", res |-> ErrConn(env.transport)]
    ELSE LET c == CheckServerKey(handler.server_check, env)
         IN  [check |-> c,
              res |-> CASE c = "true"  -> OkConn(handler.host, h)
                        [] c = "false" -> ErrConn(UnknownKey)
                        [] c = "err"   -> ErrConn(ServerCheckFailed)]

(***************************************************************************)
(* The body of the candidate loop of connect_with_config.                  *)
(***************************************************************************)
\* the value connect_res holds before the loop
InitialConnectRes_Unset == ErrConn("SshError(NotConnected)")

InitialConnectRes == ErrConn(AddressInvalid)

\* the handler built for one candidate
MakeHandler(addr, check) == [host |-> addr, server_check |-> check]

\* connect_res after one attempt answered r
NextConnectRes_KeepFirstError(prev, r) ==
    IF ~r.ok /\ ~prev.ok /\ prev.err # AddressInvalid THEN prev ELSE r

NextConnectRes(prev, r) == r

\* whether the loop is left after an attempt answered r
BreakLoop_Never(r) == FALSE

BreakLoop(r) == r.ok


(***************************************************************************)
(* Client::authenticate.  env holds what the environment answers: whether  *)
(* russh_keys decodes the private key, and what the server answers to the  *)
(* authentication request ("err" is a russh error during the request).     *)
(* Returns the Result ("ok" or the error) and the requests sent.           *)
(***************************************************************************)
AuthEnvs(method) ==
    [ decode : IF method = "Password" THEN {"unused"} ELSE {"ok", "err"},
      answer : {"true", "false", "err"} ]

\* the match on is_authentificated after authenticate_password
PasswordResult_AcceptAll(answer) ==
    CASE answer = "err"   -> AuthTransportError
      [] answer = "true"  -> "ok"
      [] answer = "false" -> "ok"

PasswordResult(answer) ==
    CASE answer = "err"   -> AuthTransportError
      [] answer = "true"  -> "ok"
      [] answer = "false" -> PasswordWrong

\* the match on is_authentificated after authenticate_publickey
PublicKeyResult_KeyInvalid(answer) ==
    CASE answer = "err"   -> AuthTransportError
      [] answer = "true"  -> "ok"
      [] answer = "false" -> KeyInvalid

PublicKeyResult(answer) ==
    CASE answer = "err"   -> AuthTransportError
      [] answer = "true"  -> "ok"
      [] answer = "false" -> KeyAuthFailed

Authenticate(method, env) ==
    IF method = "Password"
    THEN [res |-> PasswordResult(env.answer), requests |-> <<"password">>]
    ELSE IF env.decode = "err"
         THEN [res |-> KeyInvalid, requests |-> <<>>]
         ELSE [res |-> PublicKeyResult(env.answer), requests |-> <<"publickey">>]

\* `Self::authenticate(..).await?; Ok(Self { .. })`
AuthOutcome_IgnoreError(res, client) == ReturnedOk(client)

AuthOutcome(res, client) ==
    IF res = "ok" THEN ReturnedOk(client) ELSE ReturnedErr(res)

(***************************************************************************)
(* Client::connect_with_config, one action per stretch between awaits.     *)
(***************************************************************************)
\* addr.to_socket_addrs() and the initialisation of connect_res
Resolve ==
    /\ cpc = "start"
    /\ IF addr_input.ok
       THEN /\ addrs' = addr_input.addrs
            /\ connect_res' = InitialConnectRes
            /\ cpc' = "loop"
            /\ UNCHANGED connResult
       ELSE /\ connResult' = ReturnedErr(AddressInvalid)
            /\ cpc' = "done"
            /\ UNCHANGED <<addrs, connect_res>>
    /\ UNCHANGED <<addr_input, server_check, auth, attemptLog, authLog>>
    /\ UNCHANGED chanVars

\* one iteration of `for addr in addrs`
ConnectAttempt ==
    /\ cpc = "loop"
    /\ addrs # <<>>
    /\ \E e \in AttemptEnvs(server_check) :
         LET addr    == Head(addrs)
             env     == NormalEnv(e)
             handler == MakeHandler(addr, server_check)
             out     == RusshConnect(handler, env, Len(attemptLog) + 1)
         IN  /\ connect_res' = NextConnectRes(connect_res, out.res)
             /\ attemptLog' = Append(attemptLog,
                                [addr |-> addr, policy |-> handler.server_check,
                                 env |-> env, check |-> out.check, res |-> out.res])
             /\ addrs' = Tail(addrs)
             /\ cpc' = IF BreakLoop(out.res) THEN "unwrap" ELSE "loop"
    /\ UNCHANGED <<addr_input, server_check, auth, authLog, connResult>>
    /\ UNCHANGED chanVars

\* the end of the loop and `let (address, mut handle) = connect_res?`
Unwrap_AuthAnyway ==
    /\ \/ cpc = "unwrap"
       \/ cpc = "loop" /\ addrs = <<>>
    /\ cpc' = "auth"
    /\ UNCHANGED <<addr_input, server_check, auth, addrs, connect_res,
                   attemptLog, authLog, connResult>>
    /\ UNCHANGED chanVars

Unwrap ==
    /\ \/ cpc = "unwrap"
       \/ cpc = "loop" /\ addrs = <<>>
    /\ IF connect_res.ok
       THEN cpc' = "auth" /\ UNCHANGED connResult
       ELSE cpc' = "done" /\ connResult' = ReturnedErr(connect_res.err)
    /\ UNCHANGED <<addr_input, server_check, auth, addrs, connect_res,
                   attemptLog, authLog>>
    /\ UNCHANGED chanVars

\* `Self::authenticate(&mut handle, &username, auth).await?` and the return
AuthenticateStep ==
    /\ cpc = "auth"
    /\ \E e \in AuthEnvs(auth) :
         LET env == IF auth # "Password" /\ e.decode = "err"
                    THEN [e EXCEPT !.answer = "unsent"] ELSE e
             out == Authenticate(auth, env)
         IN  /\ authLog' = Append(authLog,
                             [h |-> connect_res.h, method |-> auth, env |-> env,
                              requests |-> out.requests, res |-> out.res])
             /\ connResult' = AuthOutcome(out.res,
                                [connection_handle |-> connect_res.h,
                                 username |-> Username,
                                 address |-> connect_res.addr])
    /\ cpc' = "done"
    /\ UNCHANGED <<addr_input, server_check, auth, addrs, connect_res, attemptLog>>
    /\ UNCHANGED chanVars

(***************************************************************************)
(* Bytes and text.  A byte is a number below 256, a character a code       *)
(* point; the model's characters take one or two bytes in UTF-8.           *)
(***************************************************************************)
\* U+FFFD, what String::from_utf8_lossy puts for an invalid sequence
ReplacementChar == 65533

\* 'x' and U+00E9, a one-byte and a two-byte character
Chars == {120, 233}

Utf8EncodeChar(cp) ==
    IF cp < 128 THEN <<cp>> ELSE <<192 + (cp \div 64), 128 + (cp % 64)>>

RECURSIVE Utf8Encode(_)
Utf8Encode(text) ==
    IF text = <<>> THEN <<>>
    ELSE Utf8EncodeChar(Head(text)) \o Utf8Encode(Tail(text))

IsContinuation(b) == b \in 128..191

IsLead2(b) == b \in 194..223

\* String::from_utf8_lossy on byte strings of one- and two-byte sequences:
\* a lead byte with no continuation after it, and a continuation byte with
\* no lead before it, each become one U+FFFD
RECURSIVE FromUtf8Lossy(_)
FromUtf8Lossy(bytes) ==
    IF bytes = <<>> THEN <<>>
    ELSE LET b == Head(bytes)
         IN  IF b < 128 THEN <<b>> \o FromUtf8Lossy(Tail(bytes))
             ELSE IF IsLead2(b) /\ Len(bytes) >= 2 /\ IsContinuation(bytes[2])
                  THEN <<(b - 192) * 64 + (bytes[2] - 128)>>
                         \o FromUtf8Lossy(Tail(Tail(bytes)))
                  ELSE <<ReplacementChar>> \o FromUtf8Lossy(Tail(bytes))

(***************************************************************************)
(* Channels.                                                               *)
(***************************************************************************)
Channels == 1..MaxChannels

\* what a remote command can write to its stdout, and exit with
Texts == SeqsUpTo(Chars, MaxText)

ExitStatuses == {0, 42}

\* the payload of the extended data (stderr) a command may write
StderrBytes == <<120>>

\* Result<CommandExecutedResult, crate::Error>
NoOutcome == [kind |-> "none", output |-> <<>>, exit_status |-> 0, err |-> "none"]
OkResult(output, status) ==
    [kind |-> "ok", output |-> output, exit_status |-> status, err |-> "none"]
ErrResult(e) == [kind |-> "err", output |-> <<>>, exit_status |-> 0, err |-> e]

ExecError == "SshError(SendError)"
OpenError == "SshError(ChannelOpenFailure)"

\* a channel no open_channel has returned yet.  via: the operation that
\* opened it; nexec: the exec requests sent on it; remote: its remote end,
\* "idle" (no command started), "running", "exited" (exit status delivered)
\* or "closed" (stream ended)
NoChannel ==
    [pc |-> "none", text |-> <<>>, status |-> 0, sent |-> 0,
     receive_buffer |-> <<>>, lastMsg |-> "none", outcome |-> NoOutcome,
     via |-> "none", nexec |-> 0, remote |-> "idle"]

\* russh::ChannelMsg values as self.ch.wait() answers them; "End" is None
Msg(type, data, status) == [type |-> type, data |-> data, exit_status |-> status]

OtherTypes == {"ExtendedData", "Eof"}

Min(a, b) == IF a < b THEN a ELSE b

\* what wait() can answer next on a channel whose command wrote st.text and
\* exits with st.status: the next bytes of its stdout, its exit status, an
\* event of another kind, or the end of the stream
NextMsgs(st) ==
    LET out  == Utf8Encode(st.text)
        left == Len(out) - st.sent
    IN  IF st.remote = "closed" THEN { Msg("End", <<>>, 0) }
        ELSE { Msg("Data", SubSeq(out, st.sent + 1, st.sent + n), 0) :
                 n \in 1..Min(MaxChunk, left) }
             \cup (IF st.remote = "running"
                   THEN { Msg("ExitStatus", <<>>, st.status) } ELSE {})
             \cup { Msg("ExtendedData", StderrBytes, 0),
                    Msg("Eof", <<>>, 0),
                    Msg("End", <<>>, 0) }

(***************************************************************************)
(* The arms of the match in ChannelHelper::execute.  Each returns the      *)
(* receive buffer and the value returned (NoOutcome: the loop goes on).    *)
(***************************************************************************)
\* ChannelMsg::Data
OnData_Prepend(buf, data) == [receive_buffer |-> data \o buf, ret |-> NoOutcome]

OnData(buf, data) == [receive_buffer |-> buf \o data, ret |-> NoOutcome]

\* ChannelMsg::ExitStatus
OnExitStatus(buf, status) ==
    [receive_buffer |-> buf, ret |-> OkResult(FromUtf8Lossy(buf), status)]

\* `_ => {}`
OnOther_EofReturns(buf, msg) ==
    IF msg.type = "Eof"
    THEN [receive_buffer |-> buf, ret |-> OkResult(FromUtf8Lossy(buf), 0)]
    ELSE [receive_buffer |-> buf, ret |-> NoOutcome]

OnOther_CaptureStderr(buf, msg) ==
    IF msg.type = "ExtendedData"
    THEN [receive_buffer |-> buf \o msg.data, ret |-> NoOutcome]
    ELSE [receive_buffer |-> buf, ret |-> NoOutcome]

OnOther(buf, msg) == [receive_buffer |-> buf, ret |-> NoOutcome]

\* wait() answered None: the loop ends and CommandDidntExit is returned
OnStreamEnd_PartialOutput(buf) ==
    [receive_buffer |-> buf, ret |-> OkResult(FromUtf8Lossy(buf), 0)]

OnStreamEnd_KeepWaiting(buf) == [receive_buffer |-> buf, ret |-> NoOutcome]

OnStreamEnd(buf) == [receive_buffer |-> buf, ret |-> ErrResult(CommandDidntExit)]

LoopStep(buf, msg) ==
    CASE msg.type = "End"        -> OnStreamEnd(buf)
      [] msg.type = "Data"       -> OnData(buf, msg.data)
      [] msg.type = "ExitStatus" -> OnExitStatus(buf, msg.exit_status)
      [] OTHER                   -> OnOther(buf, msg)

(***************************************************************************)
(* Client::open_channel, Client::execute and ChannelHelper::execute.       *)
(***************************************************************************)
\* what the last operation of the Client returned: res is "ok", "panic" or
\* an error; failed tells whether a step inside the operation failed
NoRet == [op |-> "none", res |-> "none", failed |-> FALSE]
Ret(op, res, failed) == [op |-> op, res |-> res, failed |-> failed]

\* crate::Error::SshError(e) of a russh::Error e
SshError(e) ==
    CASE e = "ChannelOpenFailure" -> OpenError
      [] e = "SendError"          -> ExecError

\* connection_handle.channel_open_session(): on an open session the server
\* confirms the channel or refuses it, on a closed one the request cannot
\* be sent
ChannelOpenSession(s) ==
    IF s = "open" THEN {"ok", "ChannelOpenFailure"} ELSE {"SendError"}

\* the match in open_channel: Ok(ChannelHelper { ch }) or Err(SshError(e))
OpenChannelResult(r) == IF r = "ok" THEN "ok" ELSE SshError(r)

\* the first channel no open has returned yet
Fresh(c) ==
    /\ chans[c].pc = "none"
    /\ \A d \in DOMAIN chans : d < c => chans[d].pc # "none"

\* Client::open_channel
OpenChannel_PoisonOnError ==
    /\ connResult.state = "ok"
    /\ busy = 0
    /\ \E c \in DOMAIN chans :
         /\ Fresh(c)
         /\ \E r \in ChannelOpenSession(session) :
              /\ open_res' = OpenChannelResult(r)
              /\ chans' = IF OpenChannelResult(r) = "ok"
                          THEN [chans EXCEPT ![c].pc = "open",
                                             ![c].via = "open_channel"]
                          ELSE chans
              /\ session' = IF OpenChannelResult(r) = "ok" THEN session ELSE "closed"
    /\ UNCHANGED <<connectVars, cmds, busy, ret>>

OpenChannel ==
    /\ connResult.state = "ok"
    /\ busy = 0
    /\ \E c \in DOMAIN chans :
         /\ Fresh(c)
         /\ \E r \in ChannelOpenSession(session) :
              /\ open_res' = OpenChannelResult(r)
              /\ chans' = IF OpenChannelResult(r) = "ok"
                          THEN [chans EXCEPT ![c].pc = "open",
                                             ![c].via = "open_channel"]
                          ELSE chans
    /\ UNCHANGED <<connectVars, session, cmds, busy, ret>>

\* the channel Client::execute runs its command on: the one its own
\* open_channel has just returned
ExecuteTarget_Cached(fresh) ==
    IF \E d \in DOMAIN chans : chans[d].via = "execute" /\ chans[d].pc = "done"
    THEN CHOOSE d \in DOMAIN chans : chans[d].via = "execute" /\ chans[d].pc = "done"
    ELSE fresh

ExecuteTarget(fresh) == fresh

\* the `Err(e) => Err(e)` arm of Client::execute
ExecuteOpenError_Swallow(e) == Ret("execute", "ok", TRUE)

ExecuteOpenError(e) == Ret("execute", e, TRUE)

\* Client::execute up to the return of its open_channel; ChannelHelper::
\* execute then runs on that channel (Exec, Wait) while the Client stays
\* borrowed
ClientExecute ==
    /\ connResult.state = "ok"
    /\ busy = 0
    /\ \E c \in DOMAIN chans :
         /\ Fresh(c)
         /\ \E r \in ChannelOpenSession(session) :
              IF OpenChannelResult(r) = "ok"
              THEN /\ chans' = [chans EXCEPT ![ExecuteTarget(c)].pc = "open",
                                             ![ExecuteTarget(c)].via = "execute"]
                   /\ busy' = ExecuteTarget(c)
                   /\ UNCHANGED ret
              ELSE /\ ret' = ExecuteOpenError(OpenChannelResult(r))
                   /\ UNCHANGED <<chans, busy>>
    /\ UNCHANGED <<connectVars, open_res, session, cmds>>

\* the commands of the tests: any text, any exit status
Commands == [text : Texts, status : ExitStatuses]

\* the tasks of examples/ex1.rs; task c runs a command that writes its own
\* digit.  The commands of ex1.rs all exit with 0; here each exits with its
\* task's number, so that a status taken from a sibling shows.
Tasks == 1..MaxTasks

TaskCommand(c) == [text |-> <<48 + c>>, status |-> c]

\* the commands the caller of execute on channel c may pass
CommandsOf(c) == IF cmds = "tasks" THEN {TaskCommand(c)} ELSE Commands

\* the Client::execute that ran on channel c returns with its helper
Release(c, pc) == IF busy = c /\ pc = "done" THEN 0 ELSE busy

\* `self.ch.exec(true, command).await?` and `let mut receive_buffer = vec![]`:
\* the request cannot be sent, or it is sent.  The remote end starts the
\* command of the first request it gets and refuses any later one.
ExecRequest(c) ==
    /\ \/ /\ chans' = [chans EXCEPT ![c].pc = "done",
                                    ![c].outcome = ErrResult(ExecError),
                                    ![c].receive_buffer = <<>>,
                                    ![c].lastMsg = "none"]
          /\ busy' = Release(c, "done")
       \/ /\ \E cmd \in CommandsOf(c) :
               chans' = [chans EXCEPT
                   ![c].pc = "loop",
                   ![c].outcome = NoOutcome,
                   ![c].receive_buffer = <<>>,
                   ![c].lastMsg = "none",
                   ![c].nexec = @ + 1,
                   ![c].text = IF chans[c].remote = "idle" THEN cmd.text ELSE @,
                   ![c].status = IF chans[c].remote = "idle" THEN cmd.status ELSE @,
                   ![c].remote = IF @ = "idle" THEN "running" ELSE @]
          /\ UNCHANGED busy
    /\ UNCHANGED <<connectVars, open_res, session, cmds, ret>>

\* the first ChannelHelper::execute on a helper
Exec(c) ==
    /\ chans[c].pc = "open"
    /\ ExecRequest(c)

\* ChannelHelper::execute called again on a helper whose earlier execute has
\* returned; the helper Client::execute holds is dropped at its return
ExecAgain(c) ==
    /\ chans[c].pc = "done"
    /\ chans[c].via = "open_channel"
    /\ chans[c].nexec < MaxExecs
    /\ ExecRequest(c)

\* which channel's stream `self.ch.wait()` reads
OwnChannel_Sibling(c) == IF c = 1 THEN 2 ELSE 1

OwnChannel(c) == c

\* one `self.ch.wait().await` and the match on what it answered
Wait(c) ==
    /\ chans[c].pc = "loop"
    /\ \E msg \in NextMsgs(chans[OwnChannel(c)]) :
         LET out == LoopStep(chans[c].receive_buffer, msg)
             pc  == IF out.ret = NoOutcome THEN "loop" ELSE "done"
         IN  /\ chans' = [chans EXCEPT
                   ![c].receive_buffer = out.receive_buffer,
                   ![c].outcome = out.ret,
                   ![c].pc = pc,
                   ![c].lastMsg = msg.type,
                   ![c].sent = IF msg.type = "Data" THEN @ + Len(msg.data) ELSE @,
                   ![c].remote = CASE msg.type = "ExitStatus" -> "exited"
                                   [] msg.type = "End"        -> "closed"
                                   [] OTHER                   -> @]
             /\ busy' = Release(c, pc)
    /\ UNCHANGED <<connectVars, open_res, session, cmds, ret>>

(***************************************************************************)
(* Client::disconnect and Client::file_transfer.                           *)
(***************************************************************************)
\* connection_handle.disconnect(..): the message reaches an open session,
\* which closes; a closed session takes no message
HandleDisconnect(s) == IF s = "open" THEN "ok" ELSE "SendError"

\* disconnect returns what the handle answered, a russh::Error unwrapped
DisconnectResult_AlwaysOk(r) == "ok"

DisconnectResult(r) == r

Disconnect_WhileBorrowed ==
    /\ connResult.state = "ok"
    /\ LET r == HandleDisconnect(session)
       IN  ret' = Ret("disconnect", DisconnectResult(r), r # "ok")
    /\ session' = "closed"
    /\ UNCHANGED <<connectVars, chans, open_res, cmds, busy>>

Disconnect ==
    /\ connResult.state = "ok"
    /\ busy = 0
    /\ LET r == HandleDisconnect(session)
       IN  ret' = Ret("disconnect", DisconnectResult(r), r # "ok")
    /\ session' = "closed"
    /\ UNCHANGED <<connectVars, chans, open_res, cmds, busy>>

\* what the steps of file_transfer meet: channel_open_session, File::open,
\* read_to_end and write_all; a step after a failed `?` or unwrap does not run
FileTransferEnvs(s) ==
    { [open |-> o, file |-> "unused", read |-> "unused", write |-> "unused"] :
        o \in ChannelOpenSession(s) \ {"ok"} }
    \cup (IF "ok" \in ChannelOpenSession(s)
          THEN { [open |-> "ok", file |-> "err", read |-> "unused",
                  write |-> "unused"] }
               \cup { [open |-> "ok", file |-> "ok", read |-> r, write |-> w] :
                        r \in {"ok", "err"}, w \in {"ok", "err"} }
          ELSE {})

\* `channel_open_session().await?`, `File::open(filepath).unwrap()`, the
\* unused results of read_to_end and write_all, and the final Ok
FileTransferResult(env) ==
    IF env.open # "ok" THEN SshError(env.open)
    ELSE IF env.file = "err" THEN "panic"
    ELSE "ok"

FileTransfer ==
    /\ connResult.state = "ok"
    /\ busy = 0
    /\ \E env \in FileTransferEnvs(session) :
         ret' = Ret("file_transfer", FileTransferResult(env),
                    "err" \in {env.file, env.read, env.write} \/ env.open # "ok")
    /\ UNCHANGED <<connectVars, chans, open_res, session, cmds, busy>>

AddrInputs ==
    { [ok |-> FALSE, addrs |-> <<>>] }
      \cup { [ok |-> TRUE, addrs |-> s] : s \in SeqsUpTo(Addresses, MaxAddrs) }

ConnectInit ==
    /\ addr_input \in AddrInputs
    /\ server_check \in ServerCheckMethods
    /\ auth \in AuthMethods
    /\ cpc = "start"
    /\ addrs = <<>>
    /\ connect_res = ErrConn("unassigned")
    /\ attemptLog = <<>>
    /\ authLog = <<>>
    /\ connResult = Pending

ChanInit ==
    /\ chans = [c \in Channels |-> NoChannel]
    /\ open_res = "none"
    /\ session = "open"
    /\ cmds = "tests"
    /\ busy = 0
    /\ ret = NoRet

(***************************************************************************)
(* Spec: one call of Client::connect_with_config.                          *)
(***************************************************************************)
Init == ConnectInit /\ ChanInit

Next == Resolve \/ ConnectAttempt \/ Unwrap \/ AuthenticateStep \/ OpenChannel

Spec == Init /\ [][Next]_vars

(***************************************************************************)
(* ExecSpec: the channels of a Client that connect has returned, here the  *)
(* one of a connect to a single address with NoCheck and a password.       *)
(***************************************************************************)
Connected ==
    /\ addr_input = [ok |-> TRUE, addrs |-> <<"a1">>]
    /\ server_check = [kind |-> "NoCheck", key |-> "none"]
    /\ auth = "Password"
    /\ cpc = "done"
    /\ addrs = <<>>
    /\ connect_res = OkConn("a1", 1)
    /\ attemptLog =
         << [addr |-> "a1", policy |-> [kind |-> "NoCheck", key |-> "none"],
             env |-> [transport |-> "up", server_key |-> "k1",
                      file_key |-> "unread", known |-> "unread"],
             check |-> "true", res |-> OkConn("a1", 1)] >>
    /\ authLog =
         << [h |-> 1, method |-> "Password",
             env |-> [decode |-> "unused", answer |-> "true"],
             requests |-> <<"password">>, res |-> "ok"] >>
    /\ connResult = ReturnedOk([connection_handle |-> 1, username |-> Username,
                                address |-> "a1"])

ExecInit == Connected /\ ChanInit

ExecNext ==
    \/ OpenChannel
    \/ \E c \in Channels : Exec(c)
    \/ \E c \in Channels : Wait(c)

ExecSpec == ExecInit /\ [][ExecNext]_vars

(***************************************************************************)
(* ClientSpec: the operations of a connected Client, with the tasks of     *)
(* examples/ex1.rs as callers.                                             *)
(***************************************************************************)
ClientInit ==
    /\ Connected
    /\ chans = [c \in Tasks |-> NoChannel]
    /\ open_res = "none"
    /\ session = "open"
    /\ cmds = "tasks"
    /\ busy = 0
    /\ ret = NoRet

ClientNext ==
    \/ OpenChannel
    \/ ClientExecute
    \/ \E c \in Tasks : Exec(c)
    \/ \E c \in Tasks : ExecAgain(c)
    \/ \E c \in Tasks : Wait(c)
    \/ Disconnect
    \/ FileTransfer

ClientSpec == ClientInit /\ [][ClientNext]_vars

(***************************************************************************)
(* ExecFairSpec: the tasks' channels and their execute loops, on channels  *)
(* that each deliver, sooner or later, an exit status or the end of their  *)
(* stream to the execute waiting on them.                                  *)
(***************************************************************************)
\* wait() on channel c answers ExitStatus or None
DeliverLast(c) == Wait(c) /\ chans'[c].lastMsg \in {"ExitStatus", "End"}

ExecFairNext ==
    \/ OpenChannel
    \/ \E c \in Tasks : Exec(c)
    \/ \E c \in Tasks : Wait(c)

ExecFairSpec ==
    /\ ClientInit
    /\ [][ExecFairNext]_vars
    /\ \A c \in Tasks : WF_vars(DeliverLast(c))

(***************************************************************************)
(* Properties of connect (checked under Spec).                             *)
(***************************************************************************)
Last(s) == s[Len(s)]

Candidates == addr_input.addrs

\* whether the server key of an attempt is one the policy accepts
Trusted(policy, env) ==
    CASE policy.kind = "NoCheck" -> TRUE
      [] policy.kind = "PublicKey" -> policy.key = env.server_key
      [] policy.kind = "PublicKeyFile" -> env.file_key = env.server_key
      [] policy.kind \in {"KnownHostsFile", "DefaultKnownHostsFile"} ->
            env.known = "true"

\* whether the policy can be evaluated at all in an attempt
Evaluable(policy, env) ==
    CASE policy.kind = "NoCheck" -> TRUE
      [] policy.kind = "PublicKey" -> policy.key \in ServerKeys
      [] policy.kind = "PublicKeyFile" -> env.file_key # "err"
      [] policy.kind \in {"KnownHostsFile", "DefaultKnownHostsFile"} ->
            env.known # "err"

\* C1: connect tries the candidates in the order supplied, one attempt per
\* position; only the last attempt made can have succeeded (no candidate is
\* tried after a success); and the Client returned reports the address of
\* that first successful candidate.
C1_FirstSuccessInOrder ==
    /\ Len(attemptLog) <= Len(Candidates)
    /\ \A i \in 1..Len(attemptLog) : attemptLog[i].addr = Candidates[i]
    /\ \A i \in 1..Len(attemptLog) :
         /\ attemptLog[i].res.ok => attemptLog[i].env.transport = "up"
         /\ i < Len(attemptLog) => ~attemptLog[i].res.ok
    /\ cpc \in {"auth", "done"} /\ attemptLog # <<>> /\ Last(attemptLog).res.ok
         => /\ connect_res.ok
            /\ connect_res.addr = Candidates[Len(attemptLog)]
    /\ connResult.state = "ok"
         => /\ attemptLog # <<>>
            /\ Last(attemptLog).res.ok
            /\ connResult.client.address = Candidates[Len(attemptLog)]

\* the fallback of tests::connect_second_address: first candidate unreachable,
\* second reachable, and the Client reports the second
C1_Witness ==
    /\ connResult.state = "ok"
    /\ Candidates = <<"a1", "a2">>
    /\ Len(attemptLog) = 2
    /\ attemptLog[1].env.transport # "up"
    /\ connResult.client.address = "a2"

\* C2: authenticate runs at most once in a connect call, and exactly once
\* when a handshake succeeded; it runs on the session of the last attempt
\* made, which is the first that succeeded; when it fails, connect returns
\* its error and no Client, and no further candidate has been attempted.
C2_AuthOnceNoRetry ==
    /\ Len(authLog) <= 1
    /\ cpc = "done" /\ attemptLog # <<>> /\ Last(attemptLog).res.ok
         => Len(authLog) = 1
    /\ connResult.state = "ok" => Len(authLog) = 1 /\ authLog[1].res = "ok"
    /\ Len(authLog) = 1
         => /\ attemptLog # <<>>
            /\ Last(attemptLog).res.ok
            /\ authLog[1].h = Last(attemptLog).res.h
            /\ authLog[1].h = Len(attemptLog)
            /\ \A i \in 1..(Len(attemptLog) - 1) : ~attemptLog[i].res.ok
            /\ authLog[1].res # "ok"
                 => /\ authLog[1].res \in
                          {PasswordWrong, KeyInvalid, KeyAuthFailed, AuthTransportError}
                    /\ connResult = ReturnedErr(authLog[1].res)

\* authentication failed on the first of two candidates; the second is untried
C2_Witness ==
    /\ cpc = "done"
    /\ Len(Candidates) = 2
    /\ Len(attemptLog) = 1
    /\ Len(authLog) = 1
    /\ authLog[1].res = KeyAuthFailed
    /\ connResult = ReturnedErr(KeyAuthFailed)

\* C3: when resolution fails or gives no candidate, connect makes no connect
\* attempt (so no server-key check either) and no authentication, and what it
\* returns is AddressInvalid.
C3_NoCandidateAddressInvalid ==
    (~addr_input.ok \/ Candidates = <<>>)
        => /\ attemptLog = <<>>
           /\ authLog = <<>>
           /\ connResult.state # "ok"
           /\ cpc = "done" => connResult = ReturnedErr(AddressInvalid)

\* resolution succeeded with zero candidates and connect has returned
C3_Witness ==
    /\ addr_input.ok
    /\ Candidates = <<>>
    /\ cpc = "done"
    /\ connResult = ReturnedErr(AddressInvalid)

\* C4: when connect has returned and every attempt it made failed, it has
\* attempted every candidate once, in order, it returns the error of the last
\* attempt, and no Client.
C4_AllFailLastError ==
    (/\ cpc = "done"
     /\ addr_input.ok
     /\ Candidates # <<>>
     /\ \A i \in 1..Len(attemptLog) : ~attemptLog[i].res.ok)
        => /\ Len(attemptLog) = Len(Candidates)
           /\ \A i \in 1..Len(Candidates) : attemptLog[i].addr = Candidates[i]
           /\ connResult = ReturnedErr(Last(attemptLog).res.err)
           /\ connResult.err # AddressInvalid
           /\ authLog = <<>>

\* two candidates failed with different errors; the second error is returned
C4_Witness ==
    /\ cpc = "done"
    /\ Len(attemptLog) = 2
    /\ attemptLog[1].res.err = "SshError(Timeout)"
    /\ attemptLog[2].res.err = "SshError(ConnectionRefused)"
    /\ connResult = ReturnedErr("SshError(ConnectionRefused)")

\* C5: every attempt evaluates the policy passed to connect; an attempt whose
\* server key the policy does not accept, or whose check cannot be evaluated
\* (then with ServerCheckFailed), is a failed attempt; after a failed attempt
\* that is not the last candidate the loop goes on to the next candidate; and
\* a Client is only returned for an attempt whose check answered true for a
\* key the policy accepts.
C5_RejectedKeyFailsCandidate ==
    /\ \A i \in 1..Len(attemptLog) :
         LET a == attemptLog[i]
         IN  /\ a.policy = server_check
             /\ a.env.transport = "up" =>
                  /\ a.check # "notrun"
                  /\ ~Trusted(a.policy, a.env) => ~a.res.ok
                  /\ ~Evaluable(a.policy, a.env) =>
                        a.res = ErrConn(ServerCheckFailed)
                  /\ a.res.ok => a.check = "true"
             /\ (~a.res.ok /\ i < Len(Candidates) /\ cpc \in {"unwrap", "auth", "done"})
                  => Len(attemptLog) > i
    /\ connResult.state = "ok"
         => /\ Last(attemptLog).check = "true"
            /\ Trusted(server_check, Last(attemptLog).env)

\* under a policy other than NoCheck the first candidate's key was rejected
\* or could not be checked, and the Client is that of the second candidate
C5_Witness ==
    /\ connResult.state = "ok"
    /\ server_check.kind # "NoCheck"
    /\ Len(attemptLog) = 2
    /\ attemptLog[1].env.transport = "up"
    /\ attemptLog[1].check \in {"false", "err"}
    /\ attemptLog[2].check = "true"
    /\ connResult.client.address = Candidates[2]

\* C6: with Password authentication answered 'not accepted' by the server,
\* connect returns PasswordWrong and no Client, and the only authentication
\* request sent in the call is that one password request.
C6_PasswordWrong ==
    \A i \in 1..Len(authLog) :
        (authLog[i].method = "Password" /\ authLog[i].env.answer = "false")
            => /\ connResult = ReturnedErr(PasswordWrong)
               /\ authLog[i].requests = <<"password">>
               /\ Len(authLog) = 1

C6_Witness ==
    /\ cpc = "done"
    /\ Len(authLog) = 1
    /\ authLog[1].method = "Password"
    /\ authLog[1].env.answer = "false"
    /\ connResult = ReturnedErr(PasswordWrong)

(***************************************************************************)
(* Properties of ChannelHelper::execute (checked under ExecSpec).          *)
(***************************************************************************)
\* the bytes of the command's stdout that wait() has answered as Data so far
Delivered(st) == SubSeq(Utf8Encode(st.text), 1, st.sent)

C7_Outcome ==
    \A c \in Channels :
        LET st == chans[c]
        IN  /\ (st.pc = "done") <=> (st.outcome.kind # "none")
            /\ st.outcome.kind \in {"none", "ok", "err"}
            /\ st.outcome.kind = "ok" => st.lastMsg = "ExitStatus"
            /\ st.lastMsg = "ExitStatus" => st.pc = "done" /\ st.outcome.kind = "ok"
            /\ st.pc = "done" =>
                 \/ st.lastMsg = "ExitStatus"
                 \/ st.lastMsg = "End" /\ st.outcome.kind = "err"
                 \/ st.lastMsg = "none" /\ st.outcome = ErrResult(ExecError)

C7_OutcomeFinal ==
    \A c \in Channels :
        chans[c].outcome.kind # "none" => chans'[c].outcome = chans[c].outcome

\* C7: an execute that has ended has one outcome, a result or an error, and
\* one that has not ended has none; the outcome never changes afterwards; a
\* result is returned only when the last event was ExitStatus, ExitStatus
\* always ends the loop, and the loop is left only by ExitStatus, by the
\* end of the stream, or (before it starts) by a failing exec.
C7_ExactlyOneOutcome == []C7_Outcome /\ [][C7_OutcomeFinal]_vars

\* an execute that received Data and then ExitStatus has returned a result
C7_Witness ==
    \E c \in Channels :
        /\ chans[c].pc = "done"
        /\ chans[c].outcome.kind = "ok"
        /\ chans[c].receive_buffer # <<>>

\* C8: a result's output is the text the command wrote to stdout and its
\* exit_status the status the command exited with.
C8_OutputComplete ==
    \A c \in Channels :
        chans[c].outcome.kind = "ok"
            => /\ chans[c].outcome.output = chans[c].text
               /\ chans[c].outcome.exit_status = chans[c].status

\* C9: when the stream ends (no ExitStatus having been received), execute
\* returns CommandDidntExit, an error that carries none of the bytes of the
\* receive buffer.
C9_StreamEndCommandDidntExit ==
    \A c \in Channels :
        (chans[c].pc = "done" /\ chans[c].lastMsg = "End")
            => chans[c].outcome = ErrResult(CommandDidntExit)

\* the stream ended after two or more bytes of Data had been buffered
C9_Witness ==
    \E c \in Channels :
        /\ chans[c].pc = "done"
        /\ chans[c].lastMsg = "End"
        /\ Len(chans[c].receive_buffer) >= 2
        /\ chans[c].outcome = ErrResult(CommandDidntExit)

C10_OtherIsNoOp ==
    \A c \in Channels :
        (chans[c].pc = "loop" /\ chans'[c].lastMsg \in OtherTypes)
            => /\ chans'[c].receive_buffer = chans[c].receive_buffer
               /\ chans'[c].pc = chans[c].pc
               /\ chans'[c].outcome = chans[c].outcome

C10_OutcomeFromDataAndExit ==
    \A c \in Channels :
        LET st == chans[c]
        IN  /\ st.pc \in {"loop", "done"} => st.receive_buffer = Delivered(st)
            /\ st.outcome.kind = "ok" =>
                 st.outcome = OkResult(FromUtf8Lossy(Delivered(st)), st.status)

\* C10: an event other than Data and ExitStatus leaves the receive buffer,
\* the position in the loop and the outcome as they were; so the buffer is
\* always the Data payloads received, and a result is made of them and of
\* the ExitStatus alone.
C10_OtherEventsIgnored == []C10_OutcomeFromDataAndExit /\ [][C10_OtherIsNoOp]_vars

\* an event of another kind was received while the buffer held Data
C10_Witness ==
    \E c \in Channels :
        /\ chans[c].pc = "loop"
        /\ chans[c].lastMsg \in OtherTypes
        /\ chans[c].receive_buffer # <<>>

\* a Data event appends its payload, once, at the end of the buffer; no
\* other event changes the buffer
C18_AppendInOrder ==
    \A c \in Channels :
        chans[c].pc = "loop" =>
            chans'[c].receive_buffer =
                chans[c].receive_buffer
                  \o SubSeq(Utf8Encode(chans[c].text), chans[c].sent + 1, chans'[c].sent)

\* the first ExitStatus ends the loop with the buffer as it stands then and
\* with its own status
C18_ResultAtFirstExitStatus ==
    \A c \in Channels :
        (chans[c].remote = "running" /\ chans'[c].remote = "exited") =>
            /\ chans'[c].pc = "done"
            /\ chans'[c].outcome =
                 OkResult(FromUtf8Lossy(chans[c].receive_buffer), chans[c].status)

\* the output is the buffer decoded as text: where no byte had to be
\* replaced, encoding the output gives the buffer back byte for byte
C18_OutputIsBuffer ==
    \A c \in Channels :
        chans[c].outcome.kind = "ok" =>
            /\ chans[c].outcome.output = FromUtf8Lossy(chans[c].receive_buffer)
            /\ (\A i \in 1..Len(chans[c].outcome.output) :
                    chans[c].outcome.output[i] # ReplacementChar)
                 => Utf8Encode(chans[c].outcome.output) = chans[c].receive_buffer

\* C18: a result's output is the concatenation, in arrival order and with
\* nothing lost, doubled or moved, of exactly the Data payloads received
\* before the first ExitStatus event (decoded as text), and its exit_status
\* is the status of that first ExitStatus event.
C18_OutputIsDataBeforeExitStatus ==
    /\ []C18_OutputIsBuffer
    /\ [][C18_AppendInOrder /\ C18_ResultAtFirstExitStatus]_vars

\* a result made of the three bytes of "x\u00e9", which came in two payloads
\* at least
C18_Witness ==
    \E c \in Channels :
        /\ chans[c].outcome = OkResult(<<120, 233>>, 42)
        /\ chans[c].receive_buffer = <<120, 195, 169>>

(***************************************************************************)
(* Properties of the Client's operations (checked under ClientSpec).       *)
(***************************************************************************)
\* a channel as open_channel inside Client::execute hands it to the helper
OpenedByExecute == [NoChannel EXCEPT !.pc = "open", !.via = "execute"]

\* the step in which a Client::execute gets its channel: the channel was
\* never opened before, and nothing else about the channels changes
C11_FreshChannel ==
    (busy = 0 /\ busy' # 0) =>
        /\ chans[busy'] = NoChannel
        /\ chans' = [chans EXCEPT ![busy'] = OpenedByExecute]

\* the channel of a Client::execute that has returned is never touched again
C11_NeverReused ==
    \A c \in DOMAIN chans :
        (chans[c].via = "execute" /\ chans[c].pc = "done") => chans'[c] = chans[c]

\* a channel of Client::execute carries at most one exec request, sent by the
\* call that opened it
C11_OneCommand ==
    \A c \in DOMAIN chans :
        chans[c].via = "execute" =>
            /\ chans[c].nexec <= 1
            /\ chans[c].pc = "done" \/ busy = c

\* C11: every call of Client::execute opens exactly one new channel and runs
\* its command on that channel only: it never uses a channel an earlier call
\* or open_channel has opened, so each command starts in the remote shell
\* context of a channel on which nothing has run.
C11_ExecuteOpensNewChannel ==
    []C11_OneCommand /\ [][C11_FreshChannel /\ C11_NeverReused]_vars

\* two calls of Client::execute have returned Ok, each on its own channel
C11_Witness ==
    /\ chans[1].via = "execute" /\ chans[1].outcome.kind = "ok"
    /\ chans[2].via = "execute" /\ chans[2].outcome.kind = "ok"

\* whether p is a prefix of s
IsPrefix(p, s) == Len(p) <= Len(s) /\ SubSeq(s, 1, Len(p)) = p

\* an Ok outcome of task c holds bytes of c's own command only, and c's own
\* exit status; an execute whose channel delivered an exit status returned Ok
C12_OwnOutcome ==
    \A c \in DOMAIN chans :
        /\ chans[c].outcome.kind = "ok" =>
             /\ IsPrefix(chans[c].receive_buffer, Utf8Encode(TaskCommand(c).text))
             /\ chans[c].outcome.output = FromUtf8Lossy(chans[c].receive_buffer)
             /\ chans[c].outcome.exit_status = TaskCommand(c).status
        /\ (chans[c].pc = "done" /\ chans[c].lastMsg = "ExitStatus") =>
             chans[c].outcome.kind = "ok"

\* a step of one channel leaves every other channel as it was
C12_NoInterference ==
    \A c, d \in DOMAIN chans :
        (c # d /\ chans'[c] # chans[c]) => chans'[d] = chans[d]

\* C12: with several channels executing at once on one Client, under every
\* interleaving of their events each execute that gets its exit status
\* completes with Ok, with an output made only of its own channel's Data
\* payloads and with its own channel's exit status; no channel's buffer or
\* outcome is changed by a sibling's events or completion order.
C12_ConcurrentChannelsIndependent ==
    []C12_OwnOutcome /\ [][C12_NoInterference]_vars

\* task 2 has completed with its own output and status while task 1, opened
\* before it, is still in its loop with its own data received
C12_Witness ==
    /\ chans[2].via = "open_channel"
    /\ chans[2].outcome = OkResult(<<50>>, 2)
    /\ chans[1].via = "open_channel"
    /\ chans[1].pc = "loop"
    /\ chans[1].receive_buffer = <<49>>

\* what an operation returns when it reports an error
IsErr(res) == res \notin {"none", "ok", "panic"}

\* on a closed session: open_channel returns an error, execute returns an
\* error, and neither opens a channel
C13_ClosedSessionFails ==
    session = "closed" =>
        /\ OpenChannel => IsErr(open_res')
        /\ ClientExecute => (ret'.op = "execute" /\ IsErr(ret'.res))
        /\ \A c \in DOMAIN chans : chans[c].pc = "none" => chans'[c].pc = "none"

\* C13: once disconnect has completed, every later open_channel and execute
\* on that Client returns an error: none of them opens a channel, returns
\* Ok or returns nothing.
C13_FailsAfterDisconnect == [][C13_ClosedSessionFails]_vars

\* after the disconnect an open_channel and an execute have each returned
\* the error of the closed session
C13_Witness ==
    /\ session = "closed"
    /\ open_res = SshError("SendError")
    /\ ret = Ret("execute", SshError("SendError"), TRUE)

\* the session changes only from open to closed, in a disconnect that
\* returns Ok
C14_ClosedByDisconnectOnly ==
    session' # session =>
        /\ session = "open" /\ session' = "closed"
        /\ Disconnect
        /\ ret' = Ret("disconnect", "ok", FALSE)

\* a disconnect on a closed session returns an error and leaves it closed
C14_SecondDisconnectErr ==
    (session = "closed" /\ Disconnect) =>
        /\ ret'.op = "disconnect" /\ IsErr(ret'.res)
        /\ session' = "closed"

\* C14: the Client goes from Authenticated to Closed through disconnect only;
\* a second disconnect on a closed Client returns an error instead of Ok and
\* leaves the Client closed.
C14_DisconnectLifecycle ==
    [][C14_ClosedByDisconnectOnly /\ C14_SecondDisconnectErr]_vars

\* a second disconnect has returned its error
C14_Witness ==
    /\ session = "closed"
    /\ ret = Ret("disconnect", "SendError", TRUE)

\* C15: every failure inside a public operation of the Client reaches the
\* caller as an error value: an operation in which a step failed returns an
\* error, neither panicking nor returning Ok.
C15_FailuresReachCaller ==
    /\ ret.failed => IsErr(ret.res)
    /\ \A c \in DOMAIN chans :
         (chans[c].pc = "done" /\ chans[c].lastMsg \in {"none", "End"}) =>
             chans[c].outcome.kind = "err"

(***************************************************************************)
(* Properties of connect followed by open_channel (checked under Spec).    *)
(***************************************************************************)
\* one handshake, so one evaluation of the policy at most, per candidate;
\* authentication runs on the session of an attempt whose check answered
\* true; a Client is returned for that session after its authentication
\* succeeded; a channel is opened on a returned Client only
C16_VerifiedThenAuthenticated ==
    /\ Len(attemptLog) <= Len(Candidates)
    /\ \A i \in 1..Len(attemptLog) :
         /\ attemptLog[i].addr = Candidates[i]
         /\ attemptLog[i].res.ok => attemptLog[i].check = "true"
    /\ Len(authLog) <= 1
    /\ authLog # <<>> =>
         /\ authLog[1].h \in 1..Len(attemptLog)
         /\ attemptLog[authLog[1].h].check = "true"
         /\ attemptLog[authLog[1].h].res.ok
    /\ connResult.state = "ok" =>
         /\ authLog # <<>>
         /\ authLog[1].res = "ok"
         /\ connResult.client.connection_handle = authLog[1].h
    /\ (open_res # "none" \/ \E c \in DOMAIN chans : chans[c].pc # "none") =>
         connResult.state = "ok"

\* no handshake, so no check, runs once authentication has been requested
C16_NoCheckAfterAuth == authLog # <<>> => attemptLog' = attemptLog

\* C16: for each candidate the ServerCheckMethod is evaluated at most once,
\* during that candidate's handshake and before any authentication request;
\* authentication is attempted only if that session's check returned true;
\* a Client exists only after authentication succeeded, so no channel is
\* opened on an unverified or unauthenticated session.
C16_CheckBeforeAuthBeforeChannel ==
    []C16_VerifiedThenAuthenticated /\ [][C16_NoCheckAfterAuth]_vars

\* the first candidate's key was rejected, the second one's accepted, the
\* authentication on the second session succeeded and a channel is open
C16_Witness ==
    /\ Len(attemptLog) = 2
    /\ attemptLog[1].check = "false"
    /\ attemptLog[2].check = "true"
    /\ authLog # <<>> /\ authLog[1].h = 2 /\ authLog[1].res = "ok"
    /\ chans[1].pc = "open"

\* C17: with PrivateKey or PrivateKeyFile, a key that cannot be decoded or
\* loaded gives KeyInvalid without any public-key request being sent; a key
\* that decodes but that the server does not accept gives KeyAuthFailed;
\* neither error stands for the other case, and authentication returns Ok
\* only when the server accepted the key.
C17_KeyInvalidVsKeyAuthFailed ==
    \A i \in 1..Len(authLog) :
        LET a == authLog[i]
        IN  a.method \in {"PrivateKey", "PrivateKeyFile"} =>
              /\ a.env.decode = "err" =>
                   /\ a.res = KeyInvalid
                   /\ a.requests = <<>>
                   /\ a.env.answer = "unsent"
              /\ (a.env.decode = "ok" /\ a.env.answer = "false") =>
                   /\ a.res = KeyAuthFailed
                   /\ a.requests = <<"publickey">>
              /\ a.res = KeyInvalid => a.env.decode = "err"
              /\ a.res = KeyAuthFailed =>
                   (a.env.decode = "ok" /\ a.env.answer = "false")
              /\ a.res = "ok" => (a.env.decode = "ok" /\ a.env.answer = "true")
              /\ connResult = IF a.res = "ok"
                              THEN ReturnedOk([connection_handle |-> a.h,
                                               username |-> Username,
                                               address |-> attemptLog[a.h].addr])
                              ELSE ReturnedErr(a.res)

\* connect with a key file that does not load has returned KeyInvalid and
\* no request was sent
C17_Witness ==
    /\ authLog # <<>>
    /\ authLog[1].method = "PrivateKeyFile"
    /\ authLog[1].env.decode = "err"
    /\ authLog[1].requests = <<>>
    /\ connResult = ReturnedErr(KeyInvalid)

\* an open_channel, or the open_channel of an execute, that succeeds
OpenSucceeds == OpenChannel /\ open_res' = "ok"
ExecuteStarts == ClientExecute /\ busy' # 0

\* a step in which a channel operation returns an error
C19_FailedStep ==
    \/ OpenChannel /\ IsErr(open_res')
    \/ ClientExecute /\ IsErr(ret'.res)
    \/ \E c \in DOMAIN chans :
         /\ chans[c].pc \in {"open", "loop", "done"}
         /\ chans'[c] # chans[c]
         /\ chans'[c].outcome.kind = "err"

\* such a step changes neither the session nor the Client's fields, nor any
\* channel but the one that failed
C19_FailureIsLocal ==
    C19_FailedStep =>
        /\ session' = session
        /\ connResult' = connResult
        /\ \A c, d \in DOMAIN chans :
             (c # d /\ chans'[c] # chans[c]) => chans'[d] = chans[d]

\* whatever has failed before, while the session is open and the Client is
\* not borrowed, an open_channel and an execute can succeed
C19_StillUsable ==
    /\ connResult.client.username = Username
    /\ connResult.client.address = "a1"
    /\ (session = "open" /\ busy = 0 /\ \E c \in DOMAIN chans : Fresh(c)) =>
         /\ ENABLED OpenSucceeds
         /\ ENABLED ExecuteStarts

\* C19: a failure of one channel operation (channel open error, exec error
\* or CommandDidntExit) is returned only to the caller of that operation and
\* leaves the Client usable: unless the session has closed, a later
\* open_channel or execute on the same Client can still succeed, and the
\* Client's username and address are unchanged.
C19_FailureLeavesClientUsable ==
    []C19_StillUsable /\ [][C19_FailureIsLocal]_vars

\* an open_channel has failed, an execute has returned CommandDidntExit, and
\* a later execute on the same Client has returned a result
C19_Witness ==
    /\ session = "open"
    /\ open_res = OpenError
    /\ chans[1].via = "execute"
    /\ chans[1].outcome = ErrResult(CommandDidntExit)
    /\ chans[2].via = "execute"
    /\ chans[2].outcome.kind = "ok"
    /\ connResult.client.username = Username

\* C20: a channel goes from Open to Executing to Completed or Failed and
\* runs exactly one remote command: at most one exec request is ever sent on
\* a channel, and an execute that has ended is not followed by another run
\* on the same channel.
C20_OneExecPerChannel ==
    \A c \in DOMAIN chans :
        /\ chans[c].nexec <= 1
        /\ chans[c].pc = "none" => chans[c].nexec = 0
        /\ chans[c].pc = "open" => chans[c].nexec = 0

\* C21: the Client outlives every channel it spawned: in no reachable state
\* is a channel that open_channel returned still open or executing while
\* the session of its Client has been closed by disconnect.
C21_NoChannelOutlivesClient ==
    \A c \in DOMAIN chans :
        session = "closed" => chans[c].pc \notin {"open", "loop"}

\* while a Client::execute holds the Client, no open_channel, execute,
\* file_transfer or disconnect takes a step, and the Client is given back
\* only when that execute returns
C23_OneAtATime ==
    busy # 0 =>
        /\ open_res' = open_res
        /\ ret' = ret
        /\ session' = session
        /\ \A c \in DOMAIN chans : chans[c].pc = "none" => chans'[c].pc = "none"
        /\ busy' # busy => (busy' = 0 /\ chans'[busy].pc = "done")

\* the Client is held by the one execute that has not returned yet; the
\* execute of every opened channel can take its next step whether the
\* Client is held or not
C23_LoopsRunAlongside ==
    /\ \A c \in DOMAIN chans :
         (chans[c].via = "execute" /\ chans[c].pc # "done") <=> busy = c
    /\ \A c \in DOMAIN chans :
         /\ chans[c].pc = "open" => ENABLED Exec(c)
         /\ chans[c].pc = "loop" => ENABLED Wait(c)

\* C23: open_channel, execute, file_transfer and disconnect need exclusive
\* access to the Client, so at most one of them is in progress on the
\* session handle at any moment and channel-open requests never overlap,
\* while the execute loops of the channels already opened run concurrently
\* with them and with each other.
C23_ExclusiveClientAccess ==
    []C23_LoopsRunAlongside /\ [][C23_OneAtATime]_vars

\* a Client::execute is in its loop on channel 2 while the execute of the
\* helper of channel 1 is in its own loop
C23_Witness ==
    /\ busy = 2
    /\ chans[2].pc = "loop"
    /\ chans[1].via = "open_channel"
    /\ chans[1].pc = "loop"
    /\ chans[1].receive_buffer = <<49>>

(***************************************************************************)
(* Termination of execute (checked under ExecFairSpec).                    *)
(***************************************************************************)
\* an execute in its loop returns
C22_Returns ==
    \A c \in Tasks : (chans[c].pc = "loop") ~> (chans[c].pc = "done")

\* the loop is left only on ExitStatus or on the end of the stream; every
\* other event is consumed and the loop goes on
C22_OnlyWayOut ==
    \A c \in Tasks :
        chans[c].pc = "loop" =>
            /\ chans'[c].pc \in {"loop", "done"}
            /\ (chans'[c].pc = "done") <=>
                 (chans'[c] # chans[c] /\ chans'[c].lastMsg \in {"ExitStatus", "End"})

\* C22: once the exec request has been accepted, execute returns provided
\* the channel delivers, sooner or later, an ExitStatus event or the end of
\* its stream; until then it keeps waiting, consuming Data and other events,
\* and it has no other way to finish.
C22_ExecuteTerminates == C22_Returns /\ [][C22_OnlyWayOut]_vars

\* an execute has returned at the end of its stream, after it consumed Data
\* and then an event of another kind
C22_Witness ==
    /\ chans[1].pc = "done"
    /\ chans[1].lastMsg = "End"
    /\ chans[1].receive_buffer = <<49>>
    /\ chans[2].pc = "loop"
    /\ chans[2].lastMsg = "Eof"

=============================================================================
